---- MODULE Spec2Model ----
(***************************************************************************)
(* qaf: a menubar controller for one network-attached KEF speaker.         *)
(*                                                                         *)
(* The model follows src/src/main.rs (the complete program: discovery,     *)
(* the forwarding task, the speaker controller's run loop, the periodic    *)
(* polling task and the menubar delegate).  The run loop and the device    *)
(* client of src/src/speaker.rs are the same code with the device bound    *)
(* at construction, i.e. the behaviour of this model once base_url is set. *)
(*                                                                         *)
(* Option<T> is modelled as a sequence of length at most one:              *)
(* None == << >>, Some(x) == <<x>>.                                        *)
(***************************************************************************)
EXTENDS Naturals, Integers, Sequences, FiniteSets, TLC

\* ----------------------------------------------------------------- bounds
\* Number of menu / power clicks the delegate acts on in one run.
MaxClicks == 2
\* Number of poller rounds that query the device in one run.
MaxPolls == 1
\* Number of commands queued for a controller that is run on its own.
MaxCmds == 2
\* Number of mDNS events that may precede the last event of the scan's
\* stream (the stream has at most MaxEvents + 1 events).
MaxEvents == 1
\* Number of status updates waiting on the update channel when a delegate
\* that is run on its own starts.
MaxUpdates == 2

\* ------------------------------------------------------------ option type
None == << >>
Some(x) == <<x>>

\* -------------------------------------------------------- input mapping
InputSource == {"USB", "WiFi", "Bluetooth", "Optical"}

\* A to_kef_source that gives Optical the wire string "optical".
to_kef_sourceOptical(v) ==
    CASE v = "USB" -> "usb"
      [] v = "WiFi" -> "wifi"
      [] v = "Bluetooth" -> "bluetooth"
      [] v = "Optical" -> "optical"

to_kef_source(v) ==
    CASE v = "USB" -> "usb"
      [] v = "WiFi" -> "wifi"
      [] v = "Bluetooth" -> "bluetooth"
      [] v = "Optical" -> "tv"

\* A from_kef_source whose WiFi arm matches "WiFi" instead of "wifi".
from_kef_sourceCase(s) ==
    CASE s = "usb" -> Some("USB")
      [] s = "WiFi" -> Some("WiFi")
      [] s = "bluetooth" -> Some("Bluetooth")
      [] s = "tv" -> Some("Optical")
      [] OTHER -> None

\* A from_kef_source that falls back to a default variant.
from_kef_sourceDefault(s) ==
    CASE s = "usb" -> Some("USB")
      [] s = "wifi" -> Some("WiFi")
      [] s = "bluetooth" -> Some("Bluetooth")
      [] s = "tv" -> Some("Optical")
      [] OTHER -> Some("USB")

from_kef_source(s) ==
    CASE s = "usb" -> Some("USB")
      [] s = "wifi" -> Some("WiFi")
      [] s = "bluetooth" -> Some("Bluetooth")
      [] s = "tv" -> Some("Optical")
      [] OTHER -> None

\* Inputs the user clicks in the model (menu items of the delegate).
ClickInputs == {"USB"}

\* ------------------------------------------------------------ the device
\* Values of kefSpeakerStatus and of kefPhysicalSource the device holds.
DevicePowers == {"standby", "powerOn"}
DeviceSources == {"wifi"}

\* A response to a getData request: the transport failed, the body was not
\* JSON, the JSON lacks the expected string key, or the JSON carries val.
RespErr == [kind |-> "transport_error", val |-> ""]
RespBadJson == [kind |-> "not_json", val |-> ""]
RespNoKey == [kind |-> "json_no_key", val |-> ""]
RespVal(v) == [kind |-> "json", val |-> v]

ReadResponses(v) == {RespErr, RespBadJson, RespNoKey, RespVal(v)}

\* The outcome of a setData request: response.json() succeeded or `?` fired.
WriteResults == {"ok", "err"}

\* What a write of value v to settings:/kef/play/physicalSource does.
DeviceWrite(dev, v) ==
    CASE v = "standby" -> [dev EXCEPT !.power = "standby"]
      [] v = "powerOn" -> [dev EXCEPT !.power = "powerOn"]
      [] OTHER -> [power |-> "powerOn", source |-> v]

\* GET /api/setData with path, roles=value and the JSON envelope
\* {"type": t, t: v}.
SetData(p, t, v) == [path |-> p, type |-> t, value |-> v]

\* The device applies a write to the input-source path whose envelope is a
\* kefPhysicalSource; any other write leaves power and source as they are.
DeviceSetData(dev, req) ==
    IF req.path = "settings:/kef/play/physicalSource"
       /\ req.type = "kefPhysicalSource"
      THEN DeviceWrite(dev, req.value)
      ELSE dev

\* ------------------------------------------------------------- statuses
SpeakerStatus(p, s) == [power |-> p, source |-> s]
UnknownStatus == SpeakerStatus("unknown", None)

\* power_json[0]["kefSpeakerStatus"].as_str().unwrap_or("unknown")
DecodePower(resp) == IF resp.kind = "json" THEN resp.val ELSE "unknown"
\* source_json[0]["kefPhysicalSource"].as_str().unwrap_or("")
DecodeSource(resp) == IF resp.kind = "json" THEN resp.val ELSE ""
\* `.send().await?` and `response.json().await?`
ReadFails(resp) == resp.kind \in {"transport_error", "not_json"}

\* ------------------------------------------------------------- commands
SpeakerInfos ==
    {[address |-> "192.168.1.20", port |-> 80, name |-> "LSX II",
      model |-> "LSXII"]}

Cmd(t, i, inf, n) == [type |-> t, input |-> i, info |-> inf, id |-> n]
NoCmd == Cmd("none", "", None, 0)

BaseUrl(info) == <<"http://", info.address, ":", info.port>>

\* ------------------------------------------------------- mDNS events
\* An event of the browse receiver.  addrs is info.get_addresses(), a set.
Event(k, as, p, n, m) ==
    [kind |-> k, addrs |-> as, port |-> p, name |-> n, model |-> m]
\* An event that is not ServiceResolved.
OtherEvent == Event("SearchStarted", {}, 0, None, None)
\* The end of the stream: receiver.recv() returns Err.
ClosedEvent == Event("closed", {}, 0, None, None)
Addr(v4, ip) == [v4 |-> v4, ip |-> ip]
\* The advertisement of the speaker of SpeakerInfos.
SpeakerEvent ==
    Event("ServiceResolved", {Addr(TRUE, "192.168.1.20")}, 80,
          Some("LSX II"), Some("LSXII"))

\* The events of a scan in the program, and those of a scan on its own:
\* a resolution without address, one with an IPv6 address only, one with
\* both families and no properties.
ProgramEvents == {OtherEvent, SpeakerEvent, ClosedEvent}
MdnsEvents ==
    ProgramEvents
    \cup {Event("ServiceResolved", {}, 80, Some("LS50"), Some("LS50W2")),
          Event("ServiceResolved", {Addr(FALSE, "fe80::1")}, 80, None, None),
          Event("ServiceResolved",
                {Addr(FALSE, "fe80::2"), Addr(TRUE, "192.168.1.30")},
                8080, None, None)}

\* The streams of at most MaxEvents + 1 events over evs.
Streams(evs) == UNION {[1..n -> evs] : n \in 0..(MaxEvents + 1)}

Scan(st, rcv, d) == [events |-> st, receiver |-> rcv, daemon |-> d]
NoScan == Scan(<< >>, FALSE, "none")

VARIABLES
    \* discovery task
    \* discovery task: position, events consumed, the scan (the events still
    \* to come, whether the receiver is held, the state of the daemon)
    discPc, discEvents, mdns,
    \* outer command channel (tx/rx), forwarding task, internal channel
    cmdQ, sent, fwdCur, intQ,
    \* shared RwLock<Option<SpeakerInfo>>, speaker_info channel, SPEAKER_INFO
    speaker_info, infoQ, SPEAKER_INFO,
    \* controller
    ctlPc, ctlCmd, base_url, ctlPower, statusResult, serviced, ctlTrace,
    \* whether a sender of the controller's command channel is alive
    txAlive,
    \* the startup query's oneshot channel
    replySent, replyRx,
    \* device
    device,
    \* polling task and the poll channel
    pollPc, pollPower, pollTrace, polls, pollQ,
    \* menubar delegate
    uiPc, speaker_discovered, speaker_powered, current_input, clicks,
    \* the menu: the title of the power item, the items with a checkmark
    power_item, checked

vars == <<discPc, discEvents, mdns, cmdQ, sent, fwdCur, intQ, speaker_info, infoQ,
          SPEAKER_INFO, ctlPc, ctlCmd, base_url, ctlPower, statusResult, serviced,
          ctlTrace, txAlive,
          replySent, replyRx, device, pollPc, pollPower, pollTrace, polls,
          pollQ, uiPc, speaker_discovered, speaker_powered,
          current_input, clicks, power_item, checked>>

discVars == <<discPc, discEvents, mdns>>
fwdVars == <<fwdCur, speaker_info, infoQ>>
ctlVars == <<ctlPc, ctlCmd, base_url, ctlPower, statusResult, serviced,
            ctlTrace, txAlive>>
pollVars == <<pollPc, pollPower, pollTrace, polls, pollQ>>
uiVars == <<uiPc, speaker_discovered, speaker_powered, current_input, clicks,
           power_item, checked>>

Init ==
    /\ discPc = "start" /\ discEvents = << >>
    /\ mdns \in {Scan(st, FALSE, "none") : st \in Streams(ProgramEvents)}
    /\ cmdQ = << >> /\ sent = 0 /\ fwdCur = NoCmd /\ intQ = << >>
    /\ speaker_info = None /\ infoQ = << >> /\ SPEAKER_INFO = None
    /\ ctlPc = "recv" /\ ctlCmd = NoCmd /\ base_url = None
    /\ ctlPower = "" /\ statusResult = None /\ serviced = << >> /\ ctlTrace = << >>
    /\ txAlive = TRUE
    /\ replySent = << >> /\ replyRx = "none"
    /\ device \in [power : DevicePowers, source : DeviceSources]
    /\ pollPc = "check" /\ pollPower = "" /\ pollTrace = << >> /\ polls = 0
    /\ pollQ = << >>
    /\ uiPc = "init" /\ speaker_discovered = FALSE
    /\ speaker_powered = FALSE /\ current_input = None /\ clicks = 0
    /\ power_item = "" /\ checked = {}

\* tx.send(cmd) on the outer unbounded channel; ids number the sends.
Enqueue(t, i, inf) ==
    /\ cmdQ' = Append(cmdQ, Cmd(t, i, inf, sent + 1))
    /\ sent' = sent + 1

\* --------------------------------------------------------------- discovery
\* A get_addresses() that is searched for any address.
AnyAddresses(ev) == ev.addrs

\* info.get_addresses().iter().find(|a| a.is_ipv4()): the addresses the
\* search may yield (the set is iterated in no given order).
Ipv4Addresses(ev) == {a \in ev.addrs : a.v4}

\* `if let ServiceEvent::ServiceResolved(info) = event` and
\* `if let Some(addr) = ...`
Matches(ev) == ev.kind = "ServiceResolved" /\ Ipv4Addresses(ev) # {}

\* SpeakerInfo { address, port, name, model } built from the event.
SpeakerInfoOf(ev, a) ==
    [address |-> a.ip, port |-> ev.port,
     name |-> IF ev.name = None THEN "Unknown KEF Speaker" ELSE ev.name[1],
     model |-> IF ev.model = None THEN "Unknown Model" ELSE ev.model[1]]

\* ServiceDaemon::new() and mdns.browse(service_type): either may fail, and
\* then the task returns without an identity.
DiscStart ==
    /\ discPc = "start"
    /\ \/ discPc' = "scan" /\ mdns' = Scan(mdns.events, TRUE, "running")
       \/ discPc' = "daemon_failed" /\ mdns' = NoScan
       \/ discPc' = "browse_failed" /\ mdns' = Scan(<< >>, FALSE, "running")
    /\ UNCHANGED <<discEvents, cmdQ, sent, intQ, fwdVars, SPEAKER_INFO, ctlVars,
                   replySent, replyRx, device, pollVars, uiVars>>

\* receiver.recv() yields an event that is not ServiceResolved, or a
\* resolution without an IPv4 address: the loop goes round.
DiscSkipEvent ==
    /\ discPc = "scan"
    /\ mdns.events # << >>
    /\ Head(mdns.events) # ClosedEvent
    /\ ~Matches(Head(mdns.events))
    /\ discEvents' = Append(discEvents, Head(mdns.events))
    /\ mdns' = [mdns EXCEPT !.events = Tail(mdns.events)]
    /\ UNCHANGED <<discPc, cmdQ, sent, intQ, fwdVars, SPEAKER_INFO, ctlVars,
                   replySent, replyRx, device, pollVars, uiVars>>

\* A match that returns without tearing the scan down.
DiscMatchNoShutdown ==
    /\ discPc = "scan"
    /\ mdns.events # << >>
    /\ Head(mdns.events) # ClosedEvent
    /\ Matches(Head(mdns.events))
    /\ \E a \in Ipv4Addresses(Head(mdns.events)) :
         Enqueue("SpeakerDiscovered", "",
                 Some(SpeakerInfoOf(Head(mdns.events), a)))
    /\ discPc' = "done"
    /\ discEvents' = << >>
    /\ mdns' = [mdns EXCEPT !.events = Tail(mdns.events)]
    /\ UNCHANGED <<intQ, fwdVars, SPEAKER_INFO, ctlVars,
                   replySent, replyRx, device, pollVars, uiVars>>

\* receiver.recv() yields ServiceResolved with an IPv4 address:
\* tx.send(SpeakerDiscovered(info)); drop(receiver); mdns.shutdown(); return.
\* The events still to come are lost with the receiver.
DiscMatch ==
    /\ discPc = "scan"
    /\ mdns.events # << >>
    /\ Head(mdns.events) # ClosedEvent
    /\ Matches(Head(mdns.events))
    /\ \E a \in Ipv4Addresses(Head(mdns.events)) :
         Enqueue("SpeakerDiscovered", "",
                 Some(SpeakerInfoOf(Head(mdns.events), a)))
    /\ discPc' = "done"
    /\ discEvents' = << >>
    /\ mdns' = Scan(<< >>, FALSE, "shutdown")
    /\ UNCHANGED <<intQ, fwdVars, SPEAKER_INFO, ctlVars,
                   replySent, replyRx, device, pollVars, uiVars>>

\* A closed stream answered with a placeholder identity.
DiscClosedPlaceholder ==
    /\ discPc = "scan"
    /\ mdns.events # << >>
    /\ Head(mdns.events) = ClosedEvent
    /\ Enqueue("SpeakerDiscovered", "",
               Some([address |-> "", port |-> 0, name |-> "Unknown KEF Speaker",
                     model |-> "Unknown Model"]))
    /\ discPc' = "exited"
    /\ discEvents' = << >>
    /\ mdns' = Scan(<< >>, FALSE, "stopped")
    /\ UNCHANGED <<intQ, fwdVars, SPEAKER_INFO, ctlVars,
                   replySent, replyRx, device, pollVars, uiVars>>

\* receiver.recv() returns Err: the event stream closed without a match
\* (the daemon is gone); the task returns.
DiscClosed ==
    /\ discPc = "scan"
    /\ mdns.events # << >>
    /\ Head(mdns.events) = ClosedEvent
    /\ discPc' = "exited"
    /\ discEvents' = << >>
    /\ mdns' = Scan(<< >>, FALSE, "stopped")
    /\ UNCHANGED <<cmdQ, sent, intQ, fwdVars, SPEAKER_INFO, ctlVars,
                   replySent, replyRx, device, pollVars, uiVars>>

\* --------------------------------------------------------- forwarding task
\* rx.recv().await yields SpeakerDiscovered: the shared state is written and
\* the info is sent to the UI; the command is still to be forwarded.
FwdDiscovered ==
    /\ fwdCur = NoCmd
    /\ cmdQ # << >>
    /\ Head(cmdQ).type = "SpeakerDiscovered"
    /\ fwdCur' = Head(cmdQ)
    /\ cmdQ' = Tail(cmdQ)
    /\ speaker_info' = Head(cmdQ).info
    /\ infoQ' = Append(infoQ, Head(cmdQ).info[1])
    /\ UNCHANGED <<discVars, sent, intQ, SPEAKER_INFO, ctlVars, replySent,
                   replyRx, device, pollVars, uiVars>>

\* internal_tx.send(cmd) of the SpeakerDiscovered arm
FwdDiscoveredSend ==
    /\ fwdCur # NoCmd
    /\ intQ' = Append(intQ, fwdCur)
    /\ fwdCur' = NoCmd
    /\ UNCHANGED <<discVars, cmdQ, sent, speaker_info, infoQ, SPEAKER_INFO,
                   ctlVars, replySent, replyRx, device, pollVars, uiVars>>

\* A forwarding task that puts the command at the front of the internal
\* queue instead of at its back.
FwdOtherFront ==
    /\ fwdCur = NoCmd
    /\ cmdQ # << >>
    /\ Head(cmdQ).type # "SpeakerDiscovered"
    /\ intQ' = <<Head(cmdQ)>> \o intQ
    /\ cmdQ' = Tail(cmdQ)
    /\ UNCHANGED <<discVars, sent, fwdVars, SPEAKER_INFO, ctlVars, replySent,
                   replyRx, device, pollVars, uiVars>>

\* A forwarding task that forwards a command while the SpeakerDiscovered
\* before it is still being handled (each command in a task of its own).
FwdOtherConcurrent ==
    /\ cmdQ # << >>
    /\ Head(cmdQ).type # "SpeakerDiscovered"
    /\ intQ' = Append(intQ, Head(cmdQ))
    /\ cmdQ' = Tail(cmdQ)
    /\ UNCHANGED <<discVars, sent, fwdVars, SPEAKER_INFO, ctlVars, replySent,
                   replyRx, device, pollVars, uiVars>>

\* rx.recv().await yields any other command: internal_tx.send(cmd)
FwdOther ==
    /\ fwdCur = NoCmd
    /\ cmdQ # << >>
    /\ Head(cmdQ).type # "SpeakerDiscovered"
    /\ intQ' = Append(intQ, Head(cmdQ))
    /\ cmdQ' = Tail(cmdQ)
    /\ UNCHANGED <<discVars, sent, fwdVars, SPEAKER_INFO, ctlVars, replySent,
                   replyRx, device, pollVars, uiVars>>

\* ------------------------------------------------------------- controller
\* ctlPc is the await the run loop is suspended at: "recv" is
\* self.rx.recv().await, "get_power", "get_source", "power_on", "set_input"
\* and "power_off" are the send().await of that request, "sleep" is the
\* pause, "end" is the end of the match arm (or its `continue`), "exited"
\* is after the loop and "panicked" is a task that unwound.
\* ctlTrace lists the device calls the current command has completed.
ctlRest == <<discVars, cmdQ, sent, fwdVars, SPEAKER_INFO, pollVars, uiVars,
            txAlive>>

\* A run loop that takes the next command whatever the current one is
\* waiting for (each command handled in a task of its own).
DequeueAnyTime ==
    /\ intQ # << >>
    /\ ctlCmd' = Head(intQ)
    /\ intQ' = Tail(intQ)
    /\ serviced' = Append(serviced, Head(intQ).id)

\* `while let Some(command) = self.rx.recv().await`: the next command is
\* taken only at the top of the loop.
Dequeue ==
    /\ ctlPc = "recv"
    /\ intQ # << >>
    /\ ctlCmd' = Head(intQ)
    /\ intQ' = Tail(intQ)
    /\ serviced' = Append(serviced, Head(intQ).id)

\* SpeakerCommand::SpeakerDiscovered(info)
CtlSpeakerDiscovered ==
    /\ Dequeue
    /\ Head(intQ).type = "SpeakerDiscovered"
    /\ base_url' = Some(BaseUrl(Head(intQ).info[1]))
    /\ ctlPc' = "end"
    /\ UNCHANGED <<ctlRest, ctlPower, statusResult, ctlTrace, replySent, replyRx,
                   device>>

\* SpeakerCommand::SetInput(input): discarded while no speaker is bound,
\* otherwise get_speaker_status() is called first.
CtlSetInput ==
    /\ Dequeue
    /\ Head(intQ).type = "SetInput"
    /\ ctlPc' = IF base_url = None THEN "end" ELSE "get_power"
    /\ UNCHANGED <<ctlRest, base_url, ctlPower, statusResult, ctlTrace,
                   replySent, replyRx, device>>

\* oneshot::Sender::send: Err(value) when the receiver has been dropped.
SendReply(rx) == IF rx = "dropped" THEN "err" ELSE "ok"

\* A GetStatus arm that unwraps the result of tx.send.
AfterReplyUnwrap(r) == IF r = "err" THEN "panicked" ELSE "end"

\* `let _ = tx.send(status)`: the result of the send is discarded.
AfterReply(r) == "end"

\* SpeakerCommand::GetStatus(tx): answered at once with "unknown" while no
\* speaker is bound, otherwise get_speaker_status() is called.
CtlGetStatus ==
    /\ Dequeue
    /\ Head(intQ).type = "GetStatus"
    /\ IF base_url = None
         THEN /\ replySent' = Append(replySent, UnknownStatus)
              /\ ctlPc' = AfterReply(SendReply(replyRx))
         ELSE /\ replySent' = replySent
              /\ ctlPc' = "get_power"
    /\ UNCHANGED <<ctlRest, base_url, ctlPower, statusResult, ctlTrace, replyRx,
                   device>>

\* A PowerOn arm without the `if self.base_url.is_none()` check.
CtlPowerOnUnchecked ==
    /\ Dequeue
    /\ Head(intQ).type = "PowerOn"
    /\ ctlPc' = "power_on"
    /\ UNCHANGED <<ctlRest, base_url, ctlPower, statusResult, ctlTrace,
                   replySent, replyRx, device>>

\* SpeakerCommand::PowerOn
CtlPowerOn ==
    /\ Dequeue
    /\ Head(intQ).type = "PowerOn"
    /\ ctlPc' = IF base_url = None THEN "end" ELSE "power_on"
    /\ UNCHANGED <<ctlRest, base_url, ctlPower, statusResult, ctlTrace,
                   replySent, replyRx, device>>

\* SpeakerCommand::PowerOff
CtlPowerOff ==
    /\ Dequeue
    /\ Head(intQ).type = "PowerOff"
    /\ ctlPc' = IF base_url = None THEN "end" ELSE "power_off"
    /\ UNCHANGED <<ctlRest, base_url, ctlPower, statusResult, ctlTrace,
                   replySent, replyRx, device>>

\* SpeakerCommand::PollUpdate(status): logged only.
CtlPollUpdate ==
    /\ Dequeue
    /\ Head(intQ).type = "PollUpdate"
    /\ ctlPc' = "end"
    /\ UNCHANGED <<ctlRest, base_url, ctlPower, statusResult, ctlTrace,
                   replySent, replyRx, device>>

\* A recv() that yields None as soon as every sender is dropped, whatever
\* is still queued.
CtlExitOnClose ==
    /\ ctlPc = "recv"
    /\ ~txAlive
    /\ ctlPc' = "exited"
    /\ UNCHANGED <<ctlRest, ctlCmd, base_url, ctlPower, statusResult, serviced,
                   ctlTrace, intQ, replySent, replyRx, device>>

\* self.rx.recv().await yields None: every sender is dropped and the queue
\* is empty; the `while let` ends and run() returns.
CtlExit ==
    /\ ctlPc = "recv"
    /\ intQ = << >>
    /\ ~txAlive
    /\ ctlPc' = "exited"
    /\ UNCHANGED <<ctlRest, ctlCmd, base_url, ctlPower, statusResult, serviced,
                   ctlTrace, intQ, replySent, replyRx, device>>

Ok(st) == [ok |-> TRUE, status |-> st]
\* Err(e) carries no status; the status field is a placeholder.
Err == [ok |-> FALSE, status |-> SpeakerStatus("", None)]

\* A GetStatus arm that answers a failed query with a standby status.
ReplyForStandby(res) ==
    IF res.ok THEN res.status ELSE SpeakerStatus("standby", None)

\* The value the GetStatus arm sends on the oneshot channel.
ReplyFor(res) == IF res.ok THEN res.status ELSE UnknownStatus

\* A SetInput arm that powers on unless the probe reported "powerOn".
AfterProbeUnlessOn(res) ==
    IF res.ok /\ res.status.power # "powerOn" THEN "power_on" ELSE "set_input"

\* The SetInput arm after the probe: power_on() first if and only if the
\* probe succeeded and reported "standby".
AfterProbe(res) ==
    IF res.ok /\ res.status.power = "standby" THEN "power_on" ELSE "set_input"

\* A run loop that propagates a failed query out of run() (`?`).
StatusReturnedPropagate(res) ==
    /\ statusResult' = Some(res)
    /\ IF ~res.ok
         THEN /\ replySent' = replySent
              /\ ctlPc' = "exited"
         ELSE IF ctlCmd.type = "GetStatus"
                THEN /\ replySent' = Append(replySent, res.status)
                     /\ ctlPc' = AfterReply(SendReply(replyRx))
                ELSE /\ replySent' = replySent
                     /\ ctlPc' = AfterProbe(res)

\* A GetStatus arm that only logs a failed query and sends nothing.
StatusReturnedSilentErr(res) ==
    /\ statusResult' = Some(res)
    /\ IF ctlCmd.type = "GetStatus"
         THEN /\ replySent' = IF res.ok THEN Append(replySent, res.status)
                                        ELSE replySent
              /\ ctlPc' = AfterReply(SendReply(replyRx))
         ELSE /\ replySent' = replySent
              /\ ctlPc' = AfterProbe(res)

\* What the run loop does with the Result of get_speaker_status():
\* the GetStatus arm replies, the SetInput arm decides on power_on.
StatusReturned(res) ==
    /\ statusResult' = Some(res)
    /\ IF ctlCmd.type = "GetStatus"
         THEN /\ replySent' = Append(replySent, ReplyFor(res))
              /\ ctlPc' = AfterReply(SendReply(replyRx))
         ELSE /\ replySent' = replySent
              /\ ctlPc' = AfterProbe(res)

\* A get_speaker_status() that skips the source read only in standby.
NeedsSourceReadUnlessStandby(power) == power # "standby"

\* A get_speaker_status() that reads the source whatever the power is.
NeedsSourceReadAlways(power) == TRUE

\* `if power == "powerOn"` of get_speaker_status()
NeedsSourceRead(power) == power = "powerOn"

\* get_speaker_status(): the read of settings:/kef/host/speakerStatus.
\* The source is read if and only if the decoded power is "powerOn".
CtlPowerRead ==
    /\ ctlPc = "get_power"
    /\ \E resp \in ReadResponses(device.power) :
         /\ ctlTrace' = Append(ctlTrace, <<"get_power", resp.kind, resp.val>>)
         /\ IF ReadFails(resp)
              THEN /\ StatusReturned(Err)
                   /\ UNCHANGED ctlPower
              ELSE IF NeedsSourceRead(DecodePower(resp))
                     THEN /\ ctlPc' = "get_source"
                          /\ ctlPower' = DecodePower(resp)
                          /\ UNCHANGED <<statusResult, replySent>>
                     ELSE /\ StatusReturned(Ok(SpeakerStatus(DecodePower(resp),
                                                             None)))
                          /\ UNCHANGED ctlPower
    /\ UNCHANGED <<ctlRest, ctlCmd, base_url, serviced, intQ, replyRx, device>>

\* get_speaker_status(): the read of settings:/kef/play/physicalSource.
CtlSourceRead ==
    /\ ctlPc = "get_source"
    /\ \E resp \in ReadResponses(device.source) :
         /\ ctlTrace' = Append(ctlTrace, <<"get_source", resp.kind, resp.val>>)
         /\ IF ReadFails(resp)
              THEN StatusReturned(Err)
              ELSE StatusReturned(Ok(SpeakerStatus(ctlPower,
                                        from_kef_source(DecodeSource(resp)))))
    /\ ctlPower' = ""
    /\ UNCHANGED <<ctlRest, ctlCmd, base_url, serviced, intQ, replyRx, device>>

\* A SetInput arm without the pause after power_on().
AfterPowerOnNoPause(type, r) ==
    IF type = "SetInput" /\ r = "ok" THEN "set_input" ELSE "end"

\* A SetInput arm that goes on after a failed power_on().
AfterPowerOnIgnoreErr(type, r) == IF type = "SetInput" THEN "sleep" ELSE "end"

\* A run loop that a failed power_on() makes return.
AfterPowerOnBreak(type, r) ==
    IF r = "err" THEN "exited"
    ELSE IF type = "SetInput" THEN "sleep" ELSE "end"

\* Where the arm goes when power_on() returns r: in the SetInput arm a
\* failure abandons the command (continue), a success starts the pause.
AfterPowerOn(type, r) == IF type = "SetInput" /\ r = "ok" THEN "sleep" ELSE "end"

\* The request set_input(input) sends.
set_inputRequest(input) ==
    SetData("settings:/kef/play/physicalSource", "kefPhysicalSource",
            to_kef_source(input))

\* The request power_on() sends.
power_onRequest ==
    SetData("settings:/kef/play/physicalSource", "kefPhysicalSource", "powerOn")

\* A power_off() that writes "standby" to the power status path.
power_offRequestStatusPath ==
    SetData("settings:/kef/host/speakerStatus", "kefSpeakerStatus", "standby")

\* The request power_off() sends.
power_offRequest ==
    SetData("settings:/kef/play/physicalSource", "kefPhysicalSource", "standby")

\* power_on(): the setData write of "powerOn" returns.
CtlPowerOnDone ==
    /\ ctlPc = "power_on"
    /\ \E r \in WriteResults :
         /\ ctlTrace' = Append(ctlTrace, <<"power_on", power_onRequest.value, r>>)
         /\ device' = IF r = "ok" THEN DeviceSetData(device, power_onRequest)
                                  ELSE device
         /\ ctlPc' = AfterPowerOn(ctlCmd.type, r)
    /\ UNCHANGED <<ctlRest, ctlCmd, base_url, ctlPower, statusResult, serviced, intQ,
                   replySent, replyRx>>

\* sleep(Duration::from_millis(500))
CtlSleepDone ==
    /\ ctlPc = "sleep"
    /\ ctlTrace' = Append(ctlTrace, <<"pause", "", "ok">>)
    /\ ctlPc' = "set_input"
    /\ UNCHANGED <<ctlRest, ctlCmd, base_url, ctlPower, statusResult, serviced, intQ,
                   replySent, replyRx, device>>

\* set_input(input): the setData write of input.to_kef_source() returns.
CtlSetInputDone ==
    /\ ctlPc = "set_input"
    /\ \E r \in WriteResults :
         /\ ctlTrace' = Append(ctlTrace,
                  <<"set_input", set_inputRequest(ctlCmd.input).value, r>>)
         /\ device' = IF r = "ok"
                        THEN DeviceSetData(device, set_inputRequest(ctlCmd.input))
                        ELSE device
    /\ ctlPc' = "end"
    /\ UNCHANGED <<ctlRest, ctlCmd, base_url, ctlPower, statusResult, serviced, intQ,
                   replySent, replyRx>>

\* A power_off() after which the controller forgets the speaker.
CtlPowerOffDoneUnbind ==
    /\ ctlPc = "power_off"
    /\ \E r \in WriteResults :
         /\ ctlTrace' = Append(ctlTrace, <<"power_off", power_offRequest.value, r>>)
         /\ device' = IF r = "ok" THEN DeviceSetData(device, power_offRequest)
                                  ELSE device
    /\ ctlPc' = "end"
    /\ base_url' = None
    /\ UNCHANGED <<ctlRest, ctlCmd, ctlPower, statusResult, serviced, intQ,
                   replySent, replyRx>>

\* power_off(): the setData write of "standby" returns.
CtlPowerOffDone ==
    /\ ctlPc = "power_off"
    /\ \E r \in WriteResults :
         /\ ctlTrace' = Append(ctlTrace, <<"power_off", power_offRequest.value, r>>)
         /\ device' = IF r = "ok" THEN DeviceSetData(device, power_offRequest)
                                  ELSE device
    /\ ctlPc' = "end"
    /\ UNCHANGED <<ctlRest, ctlCmd, base_url, ctlPower, statusResult, serviced, intQ,
                   replySent, replyRx>>

\* End of the match arm: the arm's locals are dropped and the loop goes
\* back to self.rx.recv().await.
CtlLoop ==
    /\ ctlPc = "end"
    /\ ctlPc' = "recv"
    /\ ctlCmd' = NoCmd
    /\ ctlPower' = ""
    /\ statusResult' = None
    /\ ctlTrace' = << >>
    /\ UNCHANGED <<ctlRest, base_url, serviced, intQ, replySent, replyRx, device>>

\* ------------------------------------------------------------ polling task
\* pollPc is the await the task is suspended at: "check" is the top of the
\* loop, "get_power" and "get_source" are the send().await of that request,
\* "tick" is interval.tick().await.  pollTrace lists what the current round
\* has done: the reads that returned and the status it published.
pollRest == <<discVars, cmdQ, sent, intQ, fwdVars, SPEAKER_INFO, ctlVars,
              replySent, replyRx, device, uiVars>>

\* One round of the loop with no speaker known yet:
\* speaker_info.read().await.clone() is None; interval.tick().await.
PollIdle ==
    /\ pollPc = "check"
    /\ speaker_info = None
    /\ UNCHANGED vars

\* A polling task that does not wait for a speaker to be known.
PollCheckAlways ==
    /\ pollPc = "check"
    /\ polls < MaxPolls
    /\ pollPc' = "get_power"
    /\ UNCHANGED <<pollRest, pollPower, pollTrace, polls, pollQ>>

\* Top of the loop with a speaker known: the task sends its own getData
\* request for the power status with its own reqwest client.
PollCheck ==
    /\ pollPc = "check"
    /\ polls < MaxPolls
    /\ speaker_info # None
    /\ pollPc' = "get_power"
    /\ UNCHANGED <<pollRest, pollPower, pollTrace, polls, pollQ>>

\* `if power == "powerOn"` of the polling task
PollNeedsSourceRead(power) == power = "powerOn"

\* The entry of pollTrace for poll_tx_clone.send(status).
Published(st) ==
    <<"publish", st.power, IF st.source = None THEN "" ELSE st.source[1]>>

\* The source the polling task gives its status when the read of the input
\* source returns resp: a failed request or a body that is not JSON gives
\* None (the two `else { None }` branches).
PollSource(resp) ==
    IF ReadFails(resp) THEN None ELSE from_kef_source(DecodeSource(resp))

\* The task's read of settings:/kef/host/speakerStatus returns.  Nothing
\* is published when the request or the JSON decoding fails.
PollPowerRead ==
    /\ pollPc = "get_power"
    /\ \E resp \in ReadResponses(device.power) :
         LET read == <<"get_power", resp.kind, resp.val>>
             st == SpeakerStatus(DecodePower(resp), None)
         IN IF ReadFails(resp)
              THEN /\ pollPc' = "tick"
                   /\ pollTrace' = Append(pollTrace, read)
                   /\ UNCHANGED <<pollPower, pollQ>>
              ELSE IF PollNeedsSourceRead(DecodePower(resp))
                     THEN /\ pollPc' = "get_source"
                          /\ pollPower' = DecodePower(resp)
                          /\ pollTrace' = Append(pollTrace, read)
                          /\ UNCHANGED pollQ
                     ELSE /\ pollPc' = "tick"
                          /\ pollQ' = Append(pollQ, st)
                          /\ pollTrace' = pollTrace \o <<read, Published(st)>>
                          /\ UNCHANGED pollPower
    /\ UNCHANGED <<pollRest, polls>>

\* The task's read of settings:/kef/play/physicalSource returns;
\* poll_tx_clone.send(status).
PollSourceRead ==
    /\ pollPc = "get_source"
    /\ \E resp \in ReadResponses(device.source) :
         LET st == SpeakerStatus(pollPower, PollSource(resp))
         IN /\ pollQ' = Append(pollQ, st)
            /\ pollTrace' = pollTrace \o <<<<"get_source", resp.kind, resp.val>>,
                                           Published(st)>>
    /\ pollPc' = "tick"
    /\ pollPower' = ""
    /\ UNCHANGED <<pollRest, polls>>

\* interval.tick().await returns: the round is over, its locals are gone.
PollTick ==
    /\ pollPc = "tick"
    /\ pollPc' = "check"
    /\ pollTrace' = << >>
    /\ polls' = polls + 1
    /\ UNCHANGED <<pollRest, pollPower, pollQ>>

\* -------------------------------------------------------- menubar delegate
\* InputSource::from_str: the variant a menu title names.
from_str(s) ==
    CASE s = "USB" -> Some("USB")
      [] s = "WiFi" -> Some("WiFi")
      [] s = "Bluetooth" -> Some("Bluetooth")
      [] s = "Optical" -> Some("Optical")
      [] OTHER -> None

\* The items of the menu by their titles: the four inputs, the power item
\* under either of its titles, Quit.
MenuItems ==
    {"USB", "WiFi", "Bluetooth", "Optical", "Power On", "Power Off", "Quit"}

\* The items whose title names a variant.
InputItems == {i \in MenuItems : from_str(i) # None}

\* `if is_powered { "Power Off" } else { "Power On" }`
PowerText(is_powered) == IF is_powered THEN "Power Off" ELSE "Power On"

\* The checkmarks did_finish_launching gives the items it creates.
CheckedAtStartup(input) ==
    {i \in {"USB", "WiFi", "Bluetooth", "Optical"} : input = from_str(i)}

\* The checkmark loop of process_poll_updates: every item whose title
\* names a variant is checked or unchecked, the others are left alone.
CheckedAfterUpdate(chk, source) ==
    {i \in InputItems : source = from_str(i)} \cup (chk \ InputItems)

\* The checkmark loop of menu_item_clicked: the item with the title
\* clicked is checked, every other item is unchecked.
CheckedAfterClick(title) == {i \in MenuItems : i = title}

\* did_finish_launching: a GetStatus with a fresh oneshot channel is sent.
UiLaunch ==
    /\ uiPc = "init"
    /\ Enqueue("GetStatus", "", None)
    /\ replyRx' = "waiting"
    /\ uiPc' = "wait"
    /\ UNCHANGED <<discVars, intQ, fwdVars, SPEAKER_INFO, ctlVars, replySent,
                   device, pollVars, speaker_discovered, speaker_powered,
                   current_input, clicks, power_item, checked>>

\* timeout(2s, status_rx) yields Ok(Ok(status)).
UiStartupReply ==
    /\ uiPc = "wait"
    /\ replySent # << >>
    /\ speaker_powered' = (replySent[1].power = "powerOn")
    /\ current_input' = replySent[1].source
    /\ checked' = CheckedAtStartup(current_input')
    /\ power_item' = PowerText(speaker_powered')
    /\ replyRx' = "received"
    /\ uiPc' = "run"
    /\ UNCHANGED <<discVars, cmdQ, sent, intQ, fwdVars, SPEAKER_INFO, ctlVars,
                   replySent, device, pollVars, speaker_discovered, clicks>>

\* A wait on status_rx without the timeout: it ends without a reply only
\* when the controller is gone and the sender dropped unsent.
UiStartupNoTimeout ==
    /\ uiPc = "wait"
    /\ replySent = << >>
    /\ ctlPc \in {"exited", "panicked"}
    /\ current_input' = None
    /\ checked' = CheckedAtStartup(current_input')
    /\ power_item' = PowerText(speaker_powered)
    /\ replyRx' = "dropped"
    /\ uiPc' = "run"
    /\ UNCHANGED <<discVars, cmdQ, sent, intQ, fwdVars, SPEAKER_INFO, ctlVars,
                   replySent, device, pollVars, speaker_discovered,
                   speaker_powered, clicks>>

\* timeout(2s, status_rx) elapses: the receiver is dropped, no selection.
UiStartupTimeout ==
    /\ uiPc = "wait"
    /\ replySent = << >>
    /\ current_input' = None
    /\ checked' = CheckedAtStartup(current_input')
    /\ power_item' = PowerText(speaker_powered)
    /\ replyRx' = "dropped"
    /\ uiPc' = "run"
    /\ UNCHANGED <<discVars, cmdQ, sent, intQ, fwdVars, SPEAKER_INFO, ctlVars,
                   replySent, device, pollVars, speaker_discovered,
                   speaker_powered, clicks>>

\* The info thread of menubar::run: *lock = Some(info).
UiStoreInfo ==
    /\ infoQ # << >>
    /\ SPEAKER_INFO' = Some(Head(infoQ))
    /\ infoQ' = Tail(infoQ)
    /\ UNCHANGED <<discVars, cmdQ, sent, intQ, fwdCur, speaker_info, ctlVars,
                   replySent, replyRx, device, pollVars, uiVars>>

\* What one iteration of the drain loop does with the update st.
ApplyUpdate(ui, st) ==
    LET is_powered == st.power = "powerOn"
    IN [powered |-> is_powered,
        input |-> st.source,
        title |-> PowerText(is_powered),
        checked |-> CheckedAfterUpdate(ui.checked, st.source)]

\* A drain loop that takes the updates newest first.
RECURSIVE DrainNewestFirst(_, _)
DrainNewestFirst(ui, q) ==
    IF q = << >> THEN ui
    ELSE DrainNewestFirst(ApplyUpdate(ui, q[Len(q)]), SubSeq(q, 1, Len(q) - 1))

\* The state the delegate is left in by draining the updates in q in order.
RECURSIVE Drain(_, _)
Drain(ui, q) ==
    IF q = << >> THEN ui
    ELSE Drain(ApplyUpdate(ui, Head(q)), Tail(q))

\* process_poll_updates (timer): notice the discovery, drain the updates.
UiProcessPollUpdates ==
    /\ uiPc = "run"
    /\ speaker_discovered' = (speaker_discovered \/ SPEAKER_INFO # None)
    /\ \E ui \in {Drain([powered |-> speaker_powered, input |-> current_input,
                          title |-> power_item, checked |-> checked], pollQ)} :
          /\ speaker_powered' = ui.powered
          /\ current_input' = ui.input
          /\ power_item' = ui.title
          /\ checked' = ui.checked
    /\ pollQ' = << >>
    /\ UNCHANGED <<discVars, cmdQ, sent, intQ, fwdVars, SPEAKER_INFO, ctlVars,
                   replySent, replyRx, device, pollPc, pollPower, pollTrace,
                   polls, uiPc, clicks>>

\* menu_item_clicked: ignored before discovery, otherwise the selection is
\* updated and SetInput(input) is sent.
UiMenuItemClicked ==
    /\ uiPc = "run"
    /\ clicks < MaxClicks
    /\ \E input \in ClickInputs :
         IF speaker_discovered
           THEN /\ current_input' = from_str(input)
                /\ checked' = CheckedAfterClick(input)
                /\ Enqueue("SetInput", from_str(input)[1], None)
                /\ clicks' = clicks + 1
           ELSE UNCHANGED <<current_input, checked, cmdQ, sent, clicks>>
    /\ UNCHANGED <<discVars, intQ, fwdVars, SPEAKER_INFO, ctlVars, replySent,
                   replyRx, device, pollVars, uiPc, speaker_discovered,
                   speaker_powered, power_item>>

\* power_clicked: ignored before discovery, otherwise PowerOff or PowerOn is
\* sent according to speaker_powered, which is flipped.  The title of the
\* power item is computed from is_powered, the flag as it was read at the
\* start of the handler; powering off clears every checkmark.
UiPowerClicked ==
    /\ uiPc = "run"
    /\ clicks < MaxClicks
    /\ IF ~speaker_discovered
         THEN UNCHANGED <<current_input, speaker_powered, cmdQ, sent, clicks,
                          power_item, checked>>
         ELSE LET is_powered == speaker_powered
              IN /\ clicks' = clicks + 1
                 /\ power_item' = PowerText(is_powered)
                 /\ IF is_powered
                      THEN /\ Enqueue("PowerOff", "", None)
                           /\ speaker_powered' = FALSE
                           /\ current_input' = None
                           /\ checked' = {}
                      ELSE /\ Enqueue("PowerOn", "", None)
                           /\ speaker_powered' = TRUE
                           /\ UNCHANGED <<current_input, checked>>
    /\ UNCHANGED <<discVars, intQ, fwdVars, SPEAKER_INFO, ctlVars, replySent,
                   replyRx, device, pollVars, uiPc, speaker_discovered>>

\* ------------------------------------------------------------ the program
Next ==
    \/ DiscStart \/ DiscSkipEvent \/ DiscMatch \/ DiscClosed
    \/ FwdDiscovered \/ FwdDiscoveredSend \/ FwdOther
    \/ CtlSpeakerDiscovered \/ CtlSetInput \/ CtlGetStatus
    \/ CtlPowerOn \/ CtlPowerOff
    \/ CtlPowerRead \/ CtlSourceRead \/ CtlPowerOnDone \/ CtlSleepDone
    \/ CtlSetInputDone \/ CtlPowerOffDone \/ CtlLoop
    \/ PollIdle \/ PollCheck \/ PollPowerRead \/ PollSourceRead \/ PollTick
    \/ UiLaunch \/ UiStartupReply \/ UiStartupTimeout \/ UiStoreInfo
    \/ UiProcessPollUpdates \/ UiMenuItemClicked \/ UiPowerClicked

\* In main() the sender stored in SPEAKER_TX is never dropped, so the
\* forwarding task and its internal_tx live as long as the process: the
\* run loop's recv() never yields None there, and nothing sends PollUpdate.
Spec == Init /\ [][Next]_vars

\* -------------------------------------------- the discovery run on its own
\* discover_speakers(tx) with any stream of events; nothing else runs.
InitDiscovery ==
    /\ discPc = "start" /\ discEvents = << >>
    /\ mdns \in {Scan(st, FALSE, "none") : st \in Streams(MdnsEvents)}
    /\ cmdQ = << >> /\ sent = 0 /\ fwdCur = NoCmd /\ intQ = << >>
    /\ speaker_info = None /\ infoQ = << >> /\ SPEAKER_INFO = None
    /\ ctlPc = "recv" /\ ctlCmd = NoCmd /\ base_url = None
    /\ ctlPower = "" /\ statusResult = None /\ serviced = << >> /\ ctlTrace = << >>
    /\ txAlive = TRUE
    /\ replySent = << >> /\ replyRx = "none"
    /\ device \in [power : DevicePowers, source : DeviceSources]
    /\ pollPc = "check" /\ pollPower = "" /\ pollTrace = << >> /\ polls = 0
    /\ pollQ = << >>
    /\ uiPc = "init" /\ speaker_discovered = FALSE
    /\ speaker_powered = FALSE /\ current_input = None /\ clicks = 0
    /\ power_item = "" /\ checked = {}

NextDiscovery == DiscStart \/ DiscSkipEvent \/ DiscMatch \/ DiscClosed

SpecDiscovery == InitDiscovery /\ [][NextDiscovery]_vars

\* ------------------------------------------- the controller run on its own
\* SpeakerController::new(info, rx) followed by run(): the speaker is bound
\* from the start, the caller has queued some commands, holds the sender
\* and may drop it.  The device may hold any wire string as its source.
WireStrings == {"wifi", "tv", "optical", "", "powerOn", "standby"}

\* The commands a caller can queue (SpeakerCommand without the discovery).
Commands ==
    {Cmd("SetInput", i, None, 0) : i \in InputSource}
    \cup {Cmd(t, "", None, 0) : t \in {"GetStatus", "PowerOn", "PowerOff",
                                       "PollUpdate"}}

\* The queues of at most MaxCmds commands, numbered in the order sent.
CommandQueues ==
    UNION {{[i \in 1..n |-> [q[i] EXCEPT !.id = i]] : q \in [1..n -> Commands]}
           : n \in 0..MaxCmds}

InitController ==
    /\ discPc = "done" /\ discEvents = << >> /\ mdns = NoScan
    /\ cmdQ = << >> /\ fwdCur = NoCmd
    /\ intQ \in CommandQueues /\ sent = Len(intQ)
    /\ speaker_info = None /\ infoQ = << >> /\ SPEAKER_INFO = None
    /\ ctlPc = "recv" /\ ctlCmd = NoCmd
    /\ \E info \in SpeakerInfos : base_url = Some(BaseUrl(info))
    /\ ctlPower = "" /\ statusResult = None /\ serviced = << >> /\ ctlTrace = << >>
    /\ txAlive = TRUE
    /\ replySent = << >> /\ replyRx \in {"waiting", "dropped"}
    /\ device \in [power : DevicePowers, source : WireStrings]
    /\ pollPc = "check" /\ pollPower = "" /\ pollTrace = << >> /\ polls = 0
    /\ pollQ = << >>
    /\ uiPc = "init" /\ speaker_discovered = FALSE
    /\ speaker_powered = FALSE /\ current_input = None /\ clicks = 0
    /\ power_item = "" /\ checked = {}

\* The caller drops the last sender of the command channel.
DropSenders ==
    /\ txAlive
    /\ txAlive' = FALSE
    /\ UNCHANGED <<discVars, cmdQ, sent, fwdVars, SPEAKER_INFO, pollVars, uiVars,
                   ctlPc, ctlCmd, base_url, ctlPower, statusResult, serviced,
                   ctlTrace, intQ, replySent, replyRx, device>>

\* The steps of the run loop.
CtlStep ==
    \/ CtlSetInput \/ CtlGetStatus \/ CtlPowerOn \/ CtlPowerOff \/ CtlPollUpdate
    \/ CtlPowerRead \/ CtlSourceRead \/ CtlPowerOnDone \/ CtlSleepDone
    \/ CtlSetInputDone \/ CtlPowerOffDone \/ CtlLoop \/ CtlExit

NextController == CtlStep \/ DropSenders

SpecController == InitController /\ [][NextController]_vars

\* The runtime keeps polling the controller's task, and every request to
\* the device returns (with a response or with an error).
FairController == SpecController /\ WF_vars(CtlStep)

\* ------------------------------------- the controller before the discovery
\* SpeakerController::new(rx) of main.rs followed by run(): no speaker is
\* bound at the start, and the queue holds commands and possibly the
\* SpeakerDiscovered of the discovery, in any order.
CommandsAndDiscovery ==
    Commands \cup {Cmd("SpeakerDiscovered", "", Some(info), 0) :
                      info \in SpeakerInfos}

QueuesWithDiscovery ==
    UNION {{[i \in 1..n |-> [q[i] EXCEPT !.id = i]] :
               q \in [1..n -> CommandsAndDiscovery]} : n \in 0..MaxCmds}

InitUnbound ==
    /\ discPc = "done" /\ discEvents = << >> /\ mdns = NoScan
    /\ cmdQ = << >> /\ fwdCur = NoCmd
    /\ intQ \in QueuesWithDiscovery /\ sent = Len(intQ)
    /\ speaker_info = None /\ infoQ = << >> /\ SPEAKER_INFO = None
    /\ ctlPc = "recv" /\ ctlCmd = NoCmd /\ base_url = None
    /\ ctlPower = "" /\ statusResult = None /\ serviced = << >> /\ ctlTrace = << >>
    /\ txAlive = TRUE
    /\ replySent = << >> /\ replyRx \in {"waiting", "dropped"}
    /\ device \in [power : DevicePowers, source : DeviceSources]
    /\ pollPc = "check" /\ pollPower = "" /\ pollTrace = << >> /\ polls = 0
    /\ pollQ = << >>
    /\ uiPc = "init" /\ speaker_discovered = FALSE
    /\ speaker_powered = FALSE /\ current_input = None /\ clicks = 0
    /\ power_item = "" /\ checked = {}

NextUnbound == CtlSpeakerDiscovered \/ CtlStep \/ DropSenders

SpecUnbound == InitUnbound /\ [][NextUnbound]_vars

\* ------------------------------------------- the view of a settled device
\* The program after discovery and startup with nothing queued and nobody
\* clicking: the device keeps the state it has, the delegate holds whatever
\* view earlier commands and updates left it, the controller waits on an
\* empty queue, and the polling task and the delegate's timer run.
\* The values the device protocol gives for kefPhysicalSource.
ProtocolSources == {"usb", "wifi", "bluetooth", "tv", "optical"}

InitSync ==
    /\ discPc = "done" /\ discEvents = << >> /\ mdns = NoScan
    /\ cmdQ = << >> /\ sent = 0 /\ fwdCur = NoCmd /\ intQ = << >>
    /\ \E info \in SpeakerInfos :
         /\ speaker_info = Some(info) /\ SPEAKER_INFO = Some(info)
         /\ base_url = Some(BaseUrl(info))
    /\ infoQ = << >>
    /\ ctlPc = "recv" /\ ctlCmd = NoCmd
    /\ ctlPower = "" /\ statusResult = None /\ serviced = << >> /\ ctlTrace = << >>
    /\ txAlive = TRUE
    /\ replySent = << >> /\ replyRx = "dropped"
    /\ device \in [power : DevicePowers, source : ProtocolSources]
    /\ pollPc = "check" /\ pollPower = "" /\ pollTrace = << >> /\ polls = 0
    /\ pollQ = << >>
    /\ uiPc = "run" /\ speaker_discovered \in BOOLEAN
    /\ speaker_powered \in BOOLEAN
    /\ current_input \in {None} \cup {Some(v) : v \in InputSource}
    /\ clicks = 0
    /\ power_item \in {"Power On", "Power Off"}
    /\ checked = CheckedAtStartup(current_input)

\* The steps of the polling task once a speaker is known.
PollStep == PollCheck \/ PollPowerRead \/ PollSourceRead \/ PollTick

NextSync == PollStep \/ UiProcessPollUpdates

SpecSync == InitSync /\ [][NextSync]_vars

\* The runtime keeps running the polling task, every request returns, and
\* the main run loop keeps firing the delegate's timer.
FairSync == SpecSync /\ WF_vars(PollStep) /\ WF_vars(UiProcessPollUpdates)

\* --------------------------------------------- the delegate run on its own
\* The delegate after did_finish_launching, with some updates already on
\* the update channel; the timer fires and the user clicks.  Commands go
\* on the outer channel and nothing takes them.
UpdateStatuses ==
    {UnknownStatus, SpeakerStatus("standby", None), SpeakerStatus("powerOn", None)}
    \cup {SpeakerStatus("powerOn", Some(v)) : v \in InputSource}

InitUi ==
    /\ discPc = "done" /\ discEvents = << >> /\ mdns = NoScan
    /\ cmdQ = << >> /\ sent = 0 /\ fwdCur = NoCmd /\ intQ = << >>
    /\ \E info \in SpeakerInfos :
         /\ speaker_info = Some(info) /\ SPEAKER_INFO = Some(info)
         /\ base_url = Some(BaseUrl(info))
    /\ infoQ = << >>
    /\ ctlPc = "recv" /\ ctlCmd = NoCmd
    /\ ctlPower = "" /\ statusResult = None /\ serviced = << >> /\ ctlTrace = << >>
    /\ txAlive = TRUE
    /\ replyRx = "received"
    /\ \E st \in UpdateStatuses :
         /\ replySent = <<st>>
         /\ speaker_powered = (st.power = "powerOn")
         /\ current_input = st.source
         /\ power_item = PowerText(st.power = "powerOn")
         /\ checked = CheckedAtStartup(st.source)
    /\ device \in [power : DevicePowers, source : DeviceSources]
    /\ pollPc = "check" /\ pollPower = "" /\ pollTrace = << >> /\ polls = 0
    /\ pollQ \in UNION {[1..n -> UpdateStatuses] : n \in 0..MaxUpdates}
    /\ uiPc = "run" /\ speaker_discovered \in BOOLEAN /\ clicks = 0

NextUi == UiProcessPollUpdates \/ UiMenuItemClicked \/ UiPowerClicked

SpecUi == InitUi /\ [][NextUi]_vars

\* ================================================================ claims
Range(q) == {q[i] : i \in 1..Len(q)}

\* Commands sent and not yet taken by the run loop.
Queued == Range(cmdQ) \cup Range(intQ) \cup (IF fwdCur = NoCmd THEN {} ELSE {fwdCur})

\* The HTTP exchanges in flight with the device: who awaits which request.
HttpPcs == {"get_power", "get_source", "power_on", "set_input", "power_off"}
WritePcs == {"power_on", "set_input", "power_off"}
InFlight ==
    (IF ctlPc \in HttpPcs THEN {[who |-> "controller", op |-> ctlPc]} ELSE {})
    \cup (IF pollPc \in HttpPcs THEN {[who |-> "poller", op |-> pollPc]} ELSE {})

\* The names of the device calls in a trace, in order.
OpNames(trace) == [i \in 1..Len(trace) |-> trace[i][1]]

\* C1: the run loop starts servicing the commands in exactly the order in
\* which they were sent on the command queue (ids number the sends): the
\* i-th command it takes is the i-th command sent, through the forwarding
\* task as well.
C1_ServicedInSendOrder == \A i \in 1..Len(serviced) : serviced[i] = i

\* C1 witness: four commands (the startup query, the discovery and two
\* clicks) have been taken by the run loop.
C1_Witness == Len(serviced) >= 4

\* C2: the controller services at most one command at a time.  It takes a
\* command only at the top of its loop, when no request, pause or arm of a
\* previous command is pending; so while a device call has not returned no
\* later command is taken, and at most one setData exchange is in flight.
C2_OneCommandAtATime ==
    /\ [][serviced' # serviced => ctlPc = "recv" /\ ctlCmd = NoCmd
                                  /\ ctlTrace = << >>]_vars
    /\ [](Cardinality({x \in InFlight : x.op \in WritePcs}) <= 1)
    /\ [](ctlPc # "recv" => ctlCmd # NoCmd /\ ctlCmd.id = serviced[Len(serviced)])

\* C2 witness: a setData write is in flight while a later command waits in
\* the internal queue.
C2_Witness == ctlPc = "set_input" /\ intQ # << >>

\* C3: no two HTTP exchanges with the device are in flight at the same
\* time, the controller's and the poller's counted together.
C3_AtMostOneInFlight == Cardinality(InFlight) <= 1

\* C4: the poller never issues a device request itself; every request in
\* flight is one the controller makes while servicing a queued command.
C4_OnlyControllerRequests ==
    \A x \in InFlight : x.who = "controller" /\ ctlCmd # NoCmd

\* C5: every GetStatus the controller takes gets exactly one value on its
\* reply channel: none before the query has returned, one at the end of
\* the arm and ever after, never two; on every path (success, failed power
\* read, failed source read, no device bound).
GetStatusPending == \E c \in Queued : c.type = "GetStatus"
C5_ExactlyOneReply ==
    /\ Len(replySent) <= 1
    /\ (uiPc = "init" \/ GetStatusPending) => replySent = << >>
    /\ (ctlCmd.type = "GetStatus" /\ ctlPc \in HttpPcs) => replySent = << >>
    /\ (ctlCmd.type = "GetStatus" /\ ctlPc = "end") => Len(replySent) = 1
    /\ (uiPc # "init" /\ ~GetStatusPending /\ ctlCmd.type # "GetStatus")
          => Len(replySent) = 1

\* C5 witness: the GetStatus arm has ended after a failed read of the input
\* source, and one reply has been sent.
C5_Witness ==
    /\ ctlCmd.type = "GetStatus" /\ ctlPc = "end"
    /\ Len(ctlTrace) = 2 /\ ctlTrace[2][1] = "get_source"
    /\ ctlTrace[2][2] = "transport_error"
    /\ Len(replySent) = 1

\* C6: the value replied to GetStatus is the status get_speaker_status()
\* returned when it succeeded, and {unknown, None} when it failed; it
\* fails exactly when the last read it made failed in transport or was not
\* JSON.
C6_ReplyIsStatusOrUnknown ==
    (ctlCmd.type = "GetStatus" /\ ctlPc = "end" /\ statusResult # None) =>
       /\ statusResult[1].ok =>
             replySent[Len(replySent)] = statusResult[1].status
       /\ ~statusResult[1].ok =>
             replySent[Len(replySent)] = [power |-> "unknown", source |-> None]
       /\ ~statusResult[1].ok <=>
             ctlTrace[Len(ctlTrace)][2] \in {"transport_error", "not_json"}

\* C6 witness: a GetStatus whose power read failed in transport has been
\* answered.
C6_Witness ==
    /\ ctlCmd.type = "GetStatus" /\ ctlPc = "end"
    /\ statusResult # None /\ ~statusResult[1].ok
    /\ ctlTrace = << <<"get_power", "transport_error", "">> >>

\* The SetInput being serviced found the device in standby.
ProbedStandby ==
    /\ ctlCmd.type = "SetInput"
    /\ statusResult # None
    /\ statusResult[1].ok
    /\ statusResult[1].status.power = "standby"

PowerOnFailed ==
    /\ ProbedStandby
    /\ \E i \in 1..Len(ctlTrace) : ctlTrace[i] = <<"power_on", "powerOn", "err">>

C8_PowerOnFailureAbandons ==
    /\ [](PowerOnFailed =>
            /\ ctlPc = "end"
            /\ OpNames(ctlTrace) = <<"get_power", "power_on">>
            /\ \A c \in Queued : c.id # ctlCmd.id)
    /\ [][(PowerOnFailed /\ ctlPc' # ctlPc) =>
            /\ ctlPc' = "recv"
            /\ intQ' = intQ
            /\ device' = device]_vars

\* C8 witness: the power_on of a SetInput has failed and a later command
\* is waiting in the internal queue.
C8_Witness == PowerOnFailed /\ intQ # << >>

\* Every status the system has produced and still holds: the result of
\* get_speaker_status(), the reply sent, the updates on the poll channel.
Produced ==
    Range(replySent) \cup Range(pollQ)
    \cup (IF statusResult # None /\ statusResult[1].ok
            THEN {statusResult[1].status} ELSE {})

\* C9: every status produced carries a source only when its power is
\* powerOn; a standby status has source None whatever source the device
\* has selected.
C9_SourceOnlyWhenPoweredOn ==
    \A st \in Produced : st.source # None => st.power = "powerOn"

\* C9 witness: the device is in standby with "usb" still selected, and a
\* standby status has been produced.
C9_Witness ==
    /\ device = [power |-> "standby", source |-> "usb"]
    /\ \E st \in Produced : st.power = "standby"

\* C10: whenever get_speaker_status() returns successfully the power of
\* the status is standby or powerOn, never unknown.
C10_SuccessNeverUnknown ==
    (statusResult # None /\ statusResult[1].ok) =>
        statusResult[1].status.power \in {"standby", "powerOn"}

\* The reads of a trace, and those that failed in transport or came back
\* as JSON without the expected key.
ReadOps == {"get_power", "get_source"}
Reads(trace) == {i \in 1..Len(trace) : trace[i][1] \in ReadOps}
FailedRead(trace) == \E i \in Reads(trace) : trace[i][2] = "transport_error"
MisshapenRead(trace) == \E i \in Reads(trace) : trace[i][2] = "json_no_key"
HasPublished(trace) == \E i \in 1..Len(trace) : trace[i][1] = "publish"

\* C11: when the power read or the source read of a status query fails in
\* transport, the query yields an error and no status: get_speaker_status()
\* returns Err, and the polling task's query (the reads of main.rs 933-983)
\* publishes nothing; no status with a power that was read and a source
\* defaulted to None after a failed second read is ever produced.
C11_NoStatusAfterFailedRead ==
    /\ (statusResult # None /\ FailedRead(ctlTrace)) => ~statusResult[1].ok
    /\ FailedRead(pollTrace) => ~HasPublished(pollTrace)

\* C12: when a response decodes as JSON but element [0] lacks the string
\* key (kefSpeakerStatus, or kefPhysicalSource for the source read),
\* get_speaker_status() returns an error and no status.
C12_ShapeMismatchIsError ==
    (statusResult # None /\ MisshapenRead(ctlTrace)) => ~statusResult[1].ok

\* C13: get_speaker_status() issues the read of the input source if and
\* only if the power decoded from the first read is "powerOn": the second
\* request is in flight only after such a first read, a query that has
\* returned made two reads exactly in that case, and on "standby" it made
\* one request and returned {standby, None}.
C13_SourceReadIffPowerOn ==
    /\ ctlPc = "get_source" =>
          /\ ctlTrace = << <<"get_power", "json", "powerOn">> >>
          /\ ctlPower = "powerOn"
    /\ statusResult # None =>
          /\ Cardinality(Reads(ctlTrace)) \in {1, 2}
          /\ Cardinality(Reads(ctlTrace)) = 2
                <=> ctlTrace[1] = <<"get_power", "json", "powerOn">>
          /\ ctlTrace[1] = <<"get_power", "json", "standby">> =>
                statusResult[1] = [ok |-> TRUE,
                                   status |-> [power |-> "standby",
                                               source |-> None]]

\* C13 witness: a GetStatus on a device in standby with "wifi" selected has
\* returned after the one read of the power status.
C13_Witness ==
    /\ ctlCmd.type = "GetStatus" /\ ctlPc = "end"
    /\ device = [power |-> "standby", source |-> "wifi"]
    /\ ctlTrace = << <<"get_power", "json", "standby">> >>
    /\ statusResult # None /\ statusResult[1].ok

\* get_speaker_status() has returned a status after two reads, the second
\* of which delivered a source string.
ReturnedWithSource ==
    /\ statusResult # None /\ statusResult[1].ok
    /\ Cardinality(Reads(ctlTrace)) = 2
    /\ ctlTrace[2][2] = "json"

\* C14: when the device reports powerOn and then the source string w,
\* get_speaker_status() returns {powerOn, the variant of w}: "wifi" gives
\* Some(WiFi), "usb" Some(USB), "bluetooth" Some(Bluetooth), "tv"
\* Some(Optical), and a string that is none of these gives None.
C14_PoweredOnStatus ==
    ReturnedWithSource =>
       LET w == ctlTrace[2][3]
           st == statusResult[1].status
       IN /\ ctlTrace[1] = <<"get_power", "json", "powerOn">>
          /\ st.power = "powerOn"
          /\ w = "wifi" => st.source = <<"WiFi">>
          /\ w = "usb" => st.source = <<"USB">>
          /\ w = "bluetooth" => st.source = <<"Bluetooth">>
          /\ w = "tv" => st.source = <<"Optical">>
          /\ w \notin {"wifi", "usb", "bluetooth", "tv"} => st.source = << >>

\* C14 witness: a GetStatus on a powered-on device playing "wifi" has
\* returned {powerOn, Some(WiFi)}.
C14_Witness ==
    /\ ctlCmd.type = "GetStatus" /\ ctlPc = "end" /\ ReturnedWithSource
    /\ ctlTrace[2] = <<"get_source", "json", "wifi">>
    /\ statusResult[1].status = [power |-> "powerOn", source |-> <<"WiFi">>]

\* C15: the input mapping round-trips.  For every variant v,
\* from_kef_source(to_kef_source(v)) = Some(v), so to_kef_source is total
\* and injective; the string set_input(v) writes decodes back to v, and a
\* status query that reads the string of v has source Some(v).
C15_RoundTrip ==
    /\ \A v \in InputSource : from_kef_source(to_kef_source(v)) = <<v>>
    /\ \A v1, v2 \in InputSource :
          to_kef_source(v1) = to_kef_source(v2) => v1 = v2
    /\ \A i \in 1..Len(ctlTrace) :
          ctlTrace[i][1] = "set_input" =>
             from_kef_source(ctlTrace[i][2]) = <<ctlCmd.input>>
    /\ ReturnedWithSource =>
          \A v \in InputSource :
             ctlTrace[2][3] = to_kef_source(v) =>
                statusResult[1].status.source = <<v>>

\* C15 witness: SetInput(Optical) has written its wire string to the device.
C15_Witness ==
    /\ ctlCmd.type = "SetInput" /\ ctlCmd.input = "Optical" /\ ctlPc = "end"
    /\ ctlTrace[Len(ctlTrace)][1] = "set_input"
    /\ ctlTrace[Len(ctlTrace)][3] = "ok"
    /\ device.source = to_kef_source("Optical")

\* The wire strings that are the image of a variant.
KnownWire == {to_kef_source(v) : v \in InputSource}

\* C16: from_kef_source(s) is None for every wire string s that is not the
\* image of a variant, the empty string and the power values "powerOn" and
\* "standby" among them; a status query that reads such a string (or a
\* response without the key, decoded as "") has source None.
C16_UnknownWireIsNone ==
    /\ {"", "powerOn", "standby"} \subseteq WireStrings \ KnownWire
    /\ \A s \in WireStrings \ KnownWire : from_kef_source(s) = << >>
    /\ (ReturnedWithSource /\ ctlTrace[2][3] \notin KnownWire) =>
          statusResult[1].status.source = << >>
    /\ (statusResult # None /\ statusResult[1].ok
        /\ Cardinality(Reads(ctlTrace)) = 2
        /\ ctlTrace[2][2] = "json_no_key") =>
          statusResult[1].status.source = << >>

\* C16 witness: a status query has read the source string "standby" from a
\* powered-on device and returned source None.
C16_Witness ==
    /\ ReturnedWithSource
    /\ ctlTrace[2] = <<"get_source", "json", "standby">>
    /\ statusResult[1].status = [power |-> "powerOn", source |-> << >>]

\* C17: the run loop ends if and only if its command channel is closed.
\* It is out of the loop only when every sender is dropped and the queue is
\* empty; it leaves only from recv(), never from inside an arm, whatever
\* the command and whatever the device answered; and once the senders are
\* dropped it drains the queue and eventually leaves.
C17_ExitsIffClosed ==
    /\ [](ctlPc = "exited" => (~txAlive /\ intQ = << >>))
    /\ [](ctlPc # "panicked")
    /\ [][(ctlPc' = "exited" /\ ctlPc # "exited") =>
            (ctlPc = "recv" /\ ctlCmd = NoCmd /\ intQ = << >> /\ ~txAlive)]_vars
    /\ (~txAlive) ~> (ctlPc = "exited")

\* C17 witness: the loop has ended after servicing two commands, one of
\* which ran into a failed device call.
C17_Witness ==
    /\ ctlPc = "exited"
    /\ Len(serviced) >= 2
    /\ replySent = << [power |-> "unknown", source |-> << >>] >>

\* A device call of the trace failed: a read in transport or in decoding,
\* or a write.
WriteOps == {"power_on", "set_input", "power_off"}
CallFailed(trace) ==
    \E i \in 1..Len(trace) :
       \/ trace[i][1] \in ReadOps /\ trace[i][2] \in {"transport_error", "not_json"}
       \/ trace[i][1] \in WriteOps /\ trace[i][3] = "err"

\* C18: a failed device call while SetInput, PowerOn, PowerOff or GetStatus
\* is serviced ends at most that command.  The loop stays in the arm (the
\* SetInput arm goes on to set_input after a failed probe) or at its end,
\* never out of the loop; from the end of the arm it goes back to recv()
\* with the queue and the bound speaker untouched; and every command that
\* was sent is eventually taken, whatever failed before it.
C18_FailureEndsOnlyThatCommand ==
    /\ [](CallFailed(ctlTrace) => ctlPc \in {"set_input", "end"})
    /\ [][(CallFailed(ctlTrace) /\ ctlPc = "end" /\ ctlPc' # ctlPc) =>
            /\ ctlPc' = "recv" /\ ctlCmd' = NoCmd /\ ctlTrace' = << >>
            /\ intQ' = intQ /\ base_url' = base_url]_vars
    /\ <>(Len(serviced) = sent)

\* C18 witness: after a GetStatus whose query failed (it was answered with
\* unknown), the next command, a SetInput, has been serviced to its end.
C18_Witness ==
    /\ replySent = << [power |-> "unknown", source |-> << >>] >>
    /\ serviced = <<1, 2>>
    /\ ctlCmd.type = "SetInput" /\ ctlPc = "end"
    /\ ctlTrace[Len(ctlTrace)][1] = "set_input"
    /\ ctlTrace[Len(ctlTrace)][3] = "ok"

\* C19: the startup status query always completes.  While the delegate
\* waits, its next step never depends on the controller: the reply is there
\* or the timeout ends the wait.  It leaves the wait for the running UI
\* only; with a reply in time the UI starts from the status replied, and
\* otherwise with no selected input and powered = false.  A reply sent
\* after the timeout changes nothing in the UI.
C19_StartupCompletes ==
    /\ [](uiPc = "wait" => ENABLED (UiStartupReply \/ UiStartupTimeout))
    /\ [][(uiPc = "wait" /\ uiPc' # "wait") =>
            /\ uiPc' = "run"
            /\ IF replySent # << >>
                 THEN /\ speaker_powered' = (replySent[1].power = "powerOn")
                      /\ current_input' = replySent[1].source
                      /\ replyRx' = "received"
                 ELSE /\ speaker_powered' = FALSE
                      /\ current_input' = << >>
                      /\ replyRx' = "dropped"]_vars
    /\ [][(replyRx = "dropped" /\ replySent' # replySent) =>
            /\ uiPc' = uiPc /\ replyRx' = "dropped"
            /\ speaker_powered' = speaker_powered
            /\ current_input' = current_input]_vars

\* C19 witness: the wait timed out, the UI is running with no selection and
\* powered = false, and the controller has sent its reply since.
C19_Witness ==
    /\ uiPc = "run" /\ replyRx = "dropped"
    /\ Len(replySent) = 1 /\ replySent[1].power = "powerOn"
    /\ current_input = << >> /\ ~speaker_powered

\* The run loop takes the command at the head of its queue.
TakeNext ==
    \/ CtlSpeakerDiscovered \/ CtlSetInput \/ CtlGetStatus
    \/ CtlPowerOn \/ CtlPowerOff \/ CtlPollUpdate

\* C20: a reply sent on a channel whose receiver is already dropped (the
\* startup wait timed out) neither blocks nor fails the run loop.  The send
\* is made and returns at once, the arm ends with the commands behind it
\* still queued, the loop never unwinds or ends, and from the end of the
\* arm it goes back to recv() and takes the next queued command.
C20_DroppedReceiverTolerated ==
    /\ [](ctlPc \notin {"panicked", "exited"})
    /\ [][(replyRx = "dropped" /\ replySent' # replySent) =>
            /\ Len(replySent') = Len(replySent) + 1
            /\ ctlPc' = "end"
            /\ intQ' = IF ctlPc = "recv" THEN Tail(intQ) ELSE intQ]_vars
    /\ [](ctlPc = "end" => ENABLED CtlLoop)
    /\ []((ctlPc = "recv" /\ intQ # << >>) => ENABLED TakeNext)

\* C20 witness: the startup wait timed out, the reply was sent afterwards
\* on the dropped channel, and a later SetInput has been serviced.
C20_Witness ==
    /\ replyRx = "dropped" /\ Len(replySent) = 1
    /\ ctlCmd.type = "SetInput" /\ ctlPc = "end"
    /\ ctlCmd.id > 1
    /\ ctlTrace[Len(ctlTrace)][1] = "set_input"

\* A resolved service with at least one IPv4 address.
IsV4Resolution(ev) ==
    ev.kind = "ServiceResolved" /\ \E a \in ev.addrs : a.v4 = TRUE

\* The identities discovery has sent.
Identities ==
    {c.info[1] : c \in {c \in Range(cmdQ) : c.type = "SpeakerDiscovered"}}

DiscReturned == discPc \in {"done", "daemon_failed", "browse_failed", "exited"}

\* C21: discovery yields the identity built from the first event, in
\* arrival order (the events consumed followed by those to come), that is a
\* resolved service with an IPv4 address.  Every event consumed before it
\* is not such an event and is only skipped; the identity has an IPv4
\* address and the port of that event; one identity at most is sent; and
\* once discovery has returned it consumes nothing more.
C21_FirstMatchWins ==
    /\ [][(discPc = "scan" /\ discPc' = "done") =>
            LET arrived == discEvents \o mdns.events
                k == Len(discEvents) + 1
            IN /\ \A i \in 1..(k - 1) : ~IsV4Resolution(arrived[i])
               /\ IsV4Resolution(arrived[k])
               /\ Len(cmdQ') = Len(cmdQ) + 1
               /\ LET c == cmdQ'[Len(cmdQ')]
                  IN /\ c.type = "SpeakerDiscovered"
                     /\ \E a \in arrived[k].addrs :
                           a.v4 = TRUE /\ c.info[1].address = a.ip
                     /\ c.info[1].port = arrived[k].port]_vars
    /\ [][(discPc = "scan" /\ discPc' = "scan") =>
            /\ cmdQ' = cmdQ
            /\ discEvents' # discEvents =>
                  /\ discEvents' = Append(discEvents, Head(mdns.events))
                  /\ mdns'.events = Tail(mdns.events)
                  /\ ~IsV4Resolution(Head(mdns.events))]_vars
    /\ [][DiscReturned => UNCHANGED <<discPc, discEvents, mdns, cmdQ>>]_vars
    /\ [](sent <= 1)

\* C21 witness: discovery has returned the identity of the dual-stack
\* advertisement, with its IPv4 address and port.
C21_Witness ==
    /\ discPc = "done"
    /\ \E id \in Identities : id.address = "192.168.1.30" /\ id.port = 8080

\* C22: whenever discovery has returned after a match, the scan is torn
\* down: the receiver is dropped, the daemon's shutdown has been requested
\* and no event is left to read; a scan that is still running belongs to a
\* discovery that has not returned.
C22_ScanTornDown ==
    /\ discPc = "done" =>
          /\ ~mdns.receiver
          /\ mdns.daemon = "shutdown"
          /\ mdns.events = << >>
    /\ (mdns.receiver /\ mdns.daemon = "running") => discPc = "scan"

\* C22 witness: discovery has returned an identity and the daemon has been
\* asked to shut down.
C22_Witness ==
    /\ discPc = "done" /\ sent = 1 /\ Identities # {}
    /\ mdns = [events |-> << >>, receiver |-> FALSE, daemon |-> "shutdown"]

\* C23: discovery yields no identity when the daemon cannot be created,
\* when browsing cannot start, or when the stream closes before a resolved
\* event with an IPv4 address; and an identity it does yield is complete:
\* address, port, name and model are all filled.
C23_NoIdentityOnFailure ==
    /\ discPc \in {"daemon_failed", "browse_failed", "exited"} =>
          (cmdQ = << >> /\ sent = 0)
    /\ \A id \in Identities :
          /\ id.address \in {"192.168.1.20", "192.168.1.30"}
          /\ id.port \in {80, 8080}
          /\ id.name # "" /\ id.model # ""

\* C23 witness: the stream closed before any match and discovery returned
\* without an identity.
C23_Witness ==
    /\ discPc = "exited" /\ mdns.daemon = "stopped"
    /\ cmdQ = << >> /\ sent = 0

\* C24: once the controller is bound to a base_url it stays bound to that
\* base_url whatever it takes from its queue; a request is awaited only by
\* a bound controller; and the base_url is the one built from the identity
\* the discovery produced (the one the polling task builds its URLs from).
C24_BaseUrlFixed ==
    /\ [][base_url # None => base_url' = base_url]_vars
    /\ [](ctlPc \in HttpPcs => base_url # None)
    /\ [](base_url # None =>
            /\ speaker_info # None
            /\ base_url = Some(BaseUrl(speaker_info[1])))

\* C24 witness: a bound controller has serviced a command before and has
\* now completed a write for a later one, still bound to the same base_url.
C24_Witness ==
    /\ \E info \in SpeakerInfos : base_url = Some(BaseUrl(info))
    /\ ctlPc = "end" /\ ctlCmd.id > 2
    /\ ctlTrace # << >> /\ ctlTrace[Len(ctlTrace)][1] \in WritePcs

\* The entries of a trace that are a status sent on the update channel.
Publishes(trace) == {i \in 1..Len(trace) : trace[i][1] = "publish"}

\* A read of the trace failed: the request or the decoding of its body.
QueryFailed(trace) ==
    \E i \in Reads(trace) : trace[i][2] \in {"transport_error", "not_json"}

\* C25: a round of the polling task that has reached its tick has sent
\* exactly one status on the update channel, and the status of a round
\* whose query failed is {unknown, None}.
C25_EveryPollPublishes ==
    pollPc = "tick" =>
        /\ Cardinality(Publishes(pollTrace)) = 1
        /\ QueryFailed(pollTrace) =>
              \A i \in Publishes(pollTrace) :
                  pollTrace[i] = Published(UnknownStatus)

\* The writes of a trace that the device accepted.
AppliedWrites(trace) ==
    {i \in 1..Len(trace) : trace[i][1] \in WriteOps /\ trace[i][3] = "ok"}

\* C26: an arm of the run loop that has applied a write to the device has,
\* by its end, sent a status on the update channel (an entry "publish" of
\* its trace, after the write).
C26_ChangeIsPublished ==
    ctlPc = "end" =>
        \A i \in AppliedWrites(ctlTrace) :
            \E j \in Publishes(ctlTrace) : j > i

\* C28: a status query whose source read delivered one of the protocol's
\* wire values returns a status whose source is some variant.
C28_ProtocolValuesDecoded ==
    (ReturnedWithSource /\ ctlTrace[2][3] \in ProtocolSources) =>
        statusResult[1].status.source # None

\* The delegate's view shows the device's state: powered exactly when the
\* device is on, no input in standby, and for a device that is on a variant,
\* the one whose wire string the device holds when there is one.
Synced ==
    /\ speaker_powered = (device.power = "powerOn")
    /\ device.power = "standby" => current_input = None
    /\ device.power = "powerOn" =>
          /\ current_input # None
          /\ device.source \in KnownWire =>
                to_kef_source(current_input[1]) = device.source

\* A read of the polling task's round did not deliver the value asked for.
PollReadFailed == \E i \in Reads(pollTrace) : pollTrace[i][2] # "json"

PhysicalSourceWrite(v) ==
    [path |-> "settings:/kef/play/physicalSource", type |-> "kefPhysicalSource",
     value |-> v]

\* The last call of the arm is the write op, and the device accepted it.
LastWriteOk(op) ==
    /\ ctlTrace # << >>
    /\ ctlTrace[Len(ctlTrace)][1] = op
    /\ ctlTrace[Len(ctlTrace)][3] = "ok"

\* C29: set_input(v), power_on() and power_off() all write to
\* settings:/kef/play/physicalSource with a kefPhysicalSource envelope,
\* carrying to_kef_source(v), "powerOn" and "standby"; a PowerOn or PowerOff
\* arm makes that one write and nothing else; and a write the device
\* accepted has taken effect on it by the end of the arm.
C29_WritesTargetPhysicalSource ==
    /\ \A v \in InputSource :
          set_inputRequest(v) = PhysicalSourceWrite(to_kef_source(v))
    /\ power_onRequest = PhysicalSourceWrite("powerOn")
    /\ power_offRequest = PhysicalSourceWrite("standby")
    /\ ctlPc = "end" =>
          /\ ctlCmd.type = "PowerOn" =>
                /\ Len(ctlTrace) = 1
                /\ ctlTrace[1][1] = "power_on" /\ ctlTrace[1][2] = "powerOn"
                /\ LastWriteOk("power_on") => device.power = "powerOn"
          /\ ctlCmd.type = "PowerOff" =>
                /\ Len(ctlTrace) = 1
                /\ ctlTrace[1][1] = "power_off" /\ ctlTrace[1][2] = "standby"
                /\ LastWriteOk("power_off") => device.power = "standby"
          /\ (ctlCmd.type = "SetInput" /\ LastWriteOk("set_input")) =>
                /\ ctlTrace[Len(ctlTrace)][2] = to_kef_source(ctlCmd.input)
                /\ device.source = to_kef_source(ctlCmd.input)

\* C29 witness: the second command is a PowerOff; its arm has made its one
\* write, the device accepted it and is in standby.
C29_Witness ==
    /\ ctlPc = "end" /\ ctlCmd.type = "PowerOff"
    /\ ctlTrace = << <<"power_off", "standby", "ok">> >>
    /\ device.power = "standby" /\ ctlCmd.id = 2

\* The run loop is at the end of an arm it ran with no speaker bound
\* (base_url changes only in the SpeakerDiscovered arm).
UnboundArmDone(types) ==
    base_url = None /\ ctlPc = "end" /\ ctlCmd.type \in types

\* C30: while base_url is None the run loop awaits no request and no
\* pause; a SetInput, PowerOn or PowerOff taken then ends its arm with no
\* device call and no reply; a GetStatus taken then ends its arm with no
\* device call and the reply {unknown, None}; the device changes only in a
\* write of a bound controller; and a command taken is gone from the queue
\* for good: it is serviced once, whatever the discovery does later.
C30_UnboundCommandsDiscarded ==
    /\ [](base_url = None => ctlPc \in {"recv", "end", "exited"})
    /\ [](UnboundArmDone({"SetInput", "PowerOn", "PowerOff"}) =>
            /\ ctlTrace = << >>
            /\ statusResult = None)
    /\ [](UnboundArmDone({"GetStatus"}) =>
            /\ ctlTrace = << >>
            /\ replySent # << >>
            /\ replySent[Len(replySent)] = UnknownStatus)
    /\ [][(base_url = None /\ ctlPc = "recv" /\ ctlPc' = "end"
            /\ Head(intQ).type \in {"SetInput", "PowerOn", "PowerOff"}) =>
             /\ replySent' = replySent /\ device' = device
             /\ intQ' = Tail(intQ)]_vars
    /\ [][device' # device => (ctlPc \in WritePcs /\ base_url # None)]_vars
    /\ [](/\ \A c \in Range(intQ) : \A i \in 1..Len(serviced) : c.id > serviced[i]
          /\ \A i, j \in 1..Len(serviced) : i < j => serviced[i] < serviced[j]
          /\ Len(serviced) + Len(intQ) = sent)

\* C30 witness: a PowerOn taken with no speaker bound has been discarded
\* with no device call while the SpeakerDiscovered is still queued behind
\* it.
C30_Witness ==
    /\ UnboundArmDone({"PowerOn"}) /\ ctlTrace = << >>
    /\ intQ # << >> /\ Head(intQ).type = "SpeakerDiscovered"

\* The calls of a trace that are not reads of the status probe.
AfterReads(trace) == SelectSeq(OpNames(trace), LAMBDA op : op \notin ReadOps)

\* C31: once the probe of a SetInput has returned, power_on is awaited or
\* made, and the pause is awaited or made, only if the probe succeeded and
\* reported "standby", and then power_on always is; after any other probe
\* (failed, or any other power value) the arm goes straight to set_input
\* and ends having made that one write and nothing else.
C31_PowerOnIffStandby ==
    (ctlCmd.type = "SetInput" /\ statusResult # None) =>
       LET made == AfterReads(ctlTrace)
           poweringOn == ctlPc = "power_on" \/ "power_on" \in Range(made)
           pausing == ctlPc = "sleep" \/ "pause" \in Range(made)
       IN /\ poweringOn <=> ProbedStandby
          /\ pausing => ProbedStandby
          /\ ~ProbedStandby =>
                /\ ctlPc \in {"set_input", "end"}
                /\ ctlPc = "set_input" => made = << >>
                /\ ctlPc = "end" => made = <<"set_input">>

\* C31 witness: the probe of a SetInput read the power without the
\* expected key (power "unknown"), and the arm ended with the one write.
C31_Witness ==
    /\ ctlCmd.type = "SetInput" /\ ctlPc = "end"
    /\ statusResult # None /\ statusResult[1].ok
    /\ statusResult[1].status.power = "unknown"
    /\ OpNames(ctlTrace) = <<"get_power", "set_input">>

\* C32: dropping the senders discards nothing: every command sent is
\* still queued or has been taken, in order; a run loop that has exited has
\* taken every command sent and left no arm unfinished; and a GetStatus
\* taken after the senders were dropped has, by the end of its arm, been
\* sent its reply (the status of its query, or unknown when it failed).
C32_QueueDrainedBeforeExit ==
    /\ Len(serviced) + Len(intQ) = sent
    /\ serviced = [i \in 1..Len(serviced) |-> i]
    /\ ctlPc = "exited" =>
          /\ Len(serviced) = sent
          /\ ctlCmd = NoCmd /\ ctlTrace = << >>
    /\ (~txAlive /\ ctlCmd.type = "GetStatus" /\ ctlPc = "end") =>
          /\ statusResult # None
          /\ replySent # << >>
          /\ replySent[Len(replySent)] = ReplyFor(statusResult[1])

\* C32 witness: with the senders dropped, the second command, a
\* GetStatus, has been answered with the device's status.
C32_Witness ==
    /\ ~txAlive /\ ctlCmd.type = "GetStatus" /\ ctlPc = "end"
    /\ ctlCmd.id = 2 /\ serviced = <<1, 2>>
    /\ replySent # << >> /\ replySent[Len(replySent)].power = "powerOn"

\* The last command sent is a SetInput that the device has not been
\* written for yet: it is queued, or its arm has not made the write.
ClickPending ==
    \/ \E c \in Queued : c.id = sent /\ c.type = "SetInput"
    \/ /\ ctlCmd.id = sent /\ ctlCmd.type = "SetInput"
       /\ ctlPc \in {"get_power", "get_source", "power_on", "sleep", "set_input"}

\* The input of the last command sent.
ClickedInput ==
    IF ctlCmd.id = sent THEN ctlCmd.input
    ELSE (CHOOSE c \in Queued : c.id = sent).input

\* C33: while the SetInput of the user's last click has not been applied
\* to the device, every status on the update channel was sampled before it
\* was applied, so none of them is applied to the view: the view keeps
\* showing the input clicked.
C33_NoStaleUpdateAfterClick ==
    ClickPending => current_input = Some(ClickedInput)

\* The commands the delegate sends on a click.
ClickTypes == {"SetInput", "PowerOn", "PowerOff"}

\* The SpeakerDiscovered has been taken by the run loop or is ahead of
\* position i of the internal queue.
DiscoveryAhead(i) ==
    \/ base_url # None
    \/ \E j \in 1..(i - 1) : intQ[j].type = "SpeakerDiscovered"

\* C34: a click's command is never taken by an unbound controller.  The
\* delegate clicks only after the forwarding task has received the
\* SpeakerDiscovered; a click's command still on the outer channel has the
\* SpeakerDiscovered in the forwarding task's hands, ahead of it in the
\* internal queue or already taken; one in the internal queue has it ahead
\* of it or already taken; and one being serviced is serviced by a bound
\* controller.
C34_ClicksFollowDiscovery ==
    /\ speaker_discovered => speaker_info # None
    /\ (\E c \in Range(cmdQ) : c.type \in ClickTypes) =>
          \/ fwdCur.type = "SpeakerDiscovered"
          \/ DiscoveryAhead(Len(intQ) + 1)
    /\ fwdCur.type \notin ClickTypes
    /\ \A i \in 1..Len(intQ) : intQ[i].type \in ClickTypes => DiscoveryAhead(i)
    /\ ctlCmd.type \in ClickTypes => base_url # None

\* C34 witness: the delegate has seen the discovery and clicked while the
\* forwarding task still holds the SpeakerDiscovered it has announced.
C34_Witness ==
    /\ fwdCur.type = "SpeakerDiscovered" /\ base_url = None
    /\ speaker_discovered
    /\ \E c \in Range(cmdQ) : c.type = "SetInput"

\* C35: while no speaker is known to the polling task it awaits no
\* request, has made none and has published nothing; and a round that has
\* published did so after its power read, the first call of the round,
\* returned a body that decoded as JSON, and published once.
C35_PollerSilentBeforeDiscovery ==
    /\ speaker_info = None =>
          /\ pollPc = "check" /\ pollTrace = << >>
          /\ pollQ = << >> /\ polls = 0
    /\ HasPublished(pollTrace) =>
          /\ pollTrace[1][1] = "get_power"
          /\ pollTrace[1][2] \in {"json", "json_no_key"}
          /\ Cardinality(Publishes(pollTrace)) = 1
          /\ pollTrace[Len(pollTrace)][1] = "publish"

\* C35 witness: after the discovery a round has read the power of a device
\* in standby and published {standby, None}.
C35_Witness ==
    /\ speaker_info # None /\ pollPc = "tick"
    /\ pollTrace = << <<"get_power", "json", "standby">>,
                      <<"publish", "standby", "">> >>
    /\ pollQ # << >>

\* C37: in every state of the running delegate, a view that is not powered
\* shows no input.
C37_UnpoweredViewHasNoInput ==
    (uiPc = "run" /\ ~speaker_powered) => current_input = None

\* C36: once the menu exists, the power item reads "Power Off" exactly
\* when speaker_powered is true and "Power On" exactly when it is false.
C36_PowerTitleMatchesFlag ==
    uiPc = "run" =>
        /\ power_item = "Power Off" <=> speaker_powered
        /\ power_item = "Power On" <=> ~speaker_powered

\* The input items that show the input.
ItemsOf(input) == {i \in MenuItems : input # None /\ from_str(i) = input}

\* C38: a run of process_poll_updates that finds updates leaves none on
\* the channel and leaves the view as the last of them says, whatever came
\* before it; and in every state of the running delegate the checked items
\* are the item of current_input, or none when there is no input.
C38_DrainAppliesLastUpdate ==
    /\ [][(pollQ # << >> /\ pollQ' # pollQ) =>
            /\ pollQ' = << >>
            /\ speaker_powered' = (pollQ[Len(pollQ)].power = "powerOn")
            /\ current_input' = pollQ[Len(pollQ)].source]_vars
    /\ [](uiPc = "run" =>
            /\ Cardinality(checked) <= 1
            /\ checked = ItemsOf(current_input))

\* C38 witness: the user clicked USB, and a later run of the timer drained
\* the channel and left the view on WiFi with that one item checked.
C38_Witness ==
    /\ clicks = 1 /\ cmdQ # << >> /\ cmdQ[1].type = "SetInput"
    /\ pollQ = << >>
    /\ speaker_powered /\ current_input = Some("WiFi") /\ checked = {"WiFi"}

====
